---- MODULE Spec2Model ----
(***************************************************************************)
(* Edit actions (cut, copy, paste, select-all, undo, redo), the            *)
(* LibrariesPanel view and the Layer view of spaces-design.                *)
(*                                                                         *)
(* The document, application, tool and ui stores, the DOM and the OS       *)
(* clipboard are collaborators of the edit actions: the stores and the     *)
(* clipboard are state, what a command reads from the OS and the DOM       *)
(* (keyboard focus, the active element, the text selection) is an input of *)
(* the invocation.                                                         *)
(***************************************************************************)
EXTENDS Integers, Sequences, FiniteSets, TLC

VARIABLES
    documents,        \* document store: id -> [open, unsupported, layers]
    currentDocument,  \* application store: id of the current document, 0 when none
    toolModal,        \* tool store: getModalToolState()
    clipboard,        \* OS clipboard: [format, data]
    overlaysEnabled,  \* ui store: the flag TOGGLE_OVERLAYS sets
    last,             \* the edit command that ran last and what it did
    hist,             \* the undo/redo command in flight, or the last one
    panel,            \* LibrariesPanel: props, the props on screen, the last decision
    view              \* Layer: the layer tree, the props and the render output

vars == <<documents, currentDocument, toolModal, clipboard, overlaysEnabled,
          last, hist, panel, view>>

------------------------------------------------------------------------------
(* Bounds *)

MaxLayer == 2
MaxLen == 2
MaxNodes == 5
MaxDrag == 2

DocIDs == {1, 2}
LayerIDs == 1 .. MaxLayer
Chars == <<"a", "b", "c", "d">>
Text == SubSeq(Chars, 1, MaxLen)

------------------------------------------------------------------------------
(* Constants of the edit actions *)

CUT_NATIVE_MENU_COMMMAND_ID == 103
COPY_NATIVE_MENU_COMMMAND_ID == 104
PASTE_NATIVE_MENU_COMMMAND_ID == 105
SELECT_ALL_NATIVE_MENU_COMMMAND_ID == 1017

LAYER_CLIPBOARD_FORMAT == "com.adobe.photoshop.spaces.design.layers"

------------------------------------------------------------------------------
(* Values *)

Range(s) == {s[i] : i \in DOMAIN s}

\* All sequences without repetition over the elements of S.
RECURSIVE Arrangements(_)
Arrangements(S) ==
    IF S = {} THEN {<<>>}
    ELSE {<<>>} \cup UNION {{<<x>> \o t : t \in Arrangements(S \ {x})} : x \in S}

\* A JavaScript value that is a string, or undefined.
Str(s) == [type |-> "string", val |-> s]

\* data starts out as the empty string.
UndefinedAsEmptyString == Str(<<>>)

Undefined == [type |-> "undefined", val |-> <<>>]

\* String.prototype.substring(from, to), 0-based, from <= to.
Substring(s, from, to) == SubSeq(s, from + 1, to)

\* The DOM elements a command can find as window.document.activeElement.
Body == [tag |-> "body", type |-> "", value |-> <<>>,
         selectionStart |-> 0, selectionEnd |-> 0]
TextInputs ==
    {el \in [tag : {"input"}, type : {"text"}, value : {Text},
             selectionStart : 0 .. MaxLen, selectionEnd : 0 .. MaxLen] :
        el.selectionStart <= el.selectionEnd}
OtherInputs ==
    {[tag |-> "input", type |-> "checkbox", value |-> Text,
      selectionStart |-> 0, selectionEnd |-> 0]}
Elements == {Body} \cup TextInputs \cup OtherInputs

\* window.document.getSelection(): its type and its text.
Selections == {[type |-> "None", text |-> <<>>],
               [type |-> "Range", text |-> SubSeq(Text, 1, 1)]}

\* No element counts as an input.
_isInputNever(el) == FALSE

_isInput(el) == el.tag = "input"

_isTextInput(el) == el.type \in {"text", "search", "url", "tel", "password"}

\* HTMLInputElement.setRangeText(replacement): replaces the selected range and
\* keeps the selection on the replacement.
setRangeText(el, replacement) ==
    [el EXCEPT
        !.value = SubSeq(el.value, 1, el.selectionStart) \o replacement \o
                  SubSeq(el.value, el.selectionEnd + 1, Len(el.value)),
        !.selectionEnd = el.selectionStart + Len(replacement)]

setSelectionRange(el, start, end) ==
    [el EXCEPT !.selectionStart = start, !.selectionEnd = end]

------------------------------------------------------------------------------
(* The clipboard payload and its JSON text *)

MaxID == IF MaxLayer > 2 THEN MaxLayer ELSE 2

\* The decimal text of a non-negative integer and its inverse.
NumberToken(n) == ToString(n)
ParseNumber(tok) ==
    IF \E n \in 0 .. MaxID : ToString(n) = tok
    THEN CHOOSE n \in 0 .. MaxID : ToString(n) = tok
    ELSE -1

RECURSIVE JoinNumbers(_)
JoinNumbers(ids) ==
    IF ids = <<>> THEN <<>>
    ELSE IF Len(ids) = 1 THEN <<NumberToken(ids[1])>>
    ELSE <<NumberToken(ids[1]), ",">> \o JoinNumbers(Tail(ids))

\* JSON.stringify({document: id, layers: [id, ...]}) as a sequence of tokens.
JSONStringify(payload) ==
    <<"{", "\"document\"", ":", NumberToken(payload.document), ",",
      "\"layers\"", ":", "[">> \o JoinNumbers(payload.layers) \o <<"]", "}">>

\* The elements of a comma-separated token list.
RECURSIVE SplitNumbers(_)
SplitNumbers(toks) ==
    IF toks = <<>> THEN <<>>
    ELSE IF Len(toks) = 1 THEN <<ParseNumber(toks[1])>>
    ELSE <<ParseNumber(toks[1])>> \o SplitNumbers(SubSeq(toks, 3, Len(toks)))

\* JSON.parse of such a text.
JSONParse(raw) ==
    [document |-> ParseNumber(raw[4]),
     layers |-> SplitNumbers(SubSeq(raw, 9, Len(raw) - 2))]

------------------------------------------------------------------------------
(* Stores and the OS clipboard *)

Null == [null |-> TRUE, id |-> 0, unsupported |-> FALSE, layers |-> {}]
ClosedDocument == [open |-> FALSE, unsupported |-> FALSE, layers |-> {}]

\* documentStore.getDocument(id): the document model, or null.
getDocument(id) ==
    IF id \in DocIDs /\ documents[id].open
    THEN [null |-> FALSE, id |-> id, unsupported |-> documents[id].unsupported,
          layers |-> documents[id].layers]
    ELSE Null

\* applicationStore.getCurrentDocument().
getCurrentDocument == getDocument(currentDocument)

\* Only a missing document is tested.
unusableOnlyNull(document) == document.null

\* !document || document.unsupported
unusable(document) == document.null \/ document.unsupported

\* document.layers.byID(id): the layer when the document has it.
byID(document, id) == id \in document.layers

EmptyClipboard == [format |-> "none", data |-> <<>>]

\* os.clipboardRead(formats): the clipboard content when it is in one of the
\* formats asked for.
clipboardRead(formats) ==
    IF clipboard.format \in formats THEN clipboard ELSE EmptyClipboard

\* os.clipboardWrite(data, format), format defaulting to "string".
clipboardWrite(data, format) == [format |-> format, data |-> data]

------------------------------------------------------------------------------
(* What a command did.  The adapter's OS calls (hasKeyboardFocus,           *)
(* clipboardRead, clipboardWrite) are taken to succeed; the flux actions a  *)
(* command transfers to may fulfil or reject.                               *)

\* The event is created without {bubbles: true}.
EventNotBubbling(type) == [type |-> type, bubbles |-> FALSE]

Event(type) == [type |-> type, bubbles |-> TRUE]

NoCommand ==
    [cmd |-> "none", cefHasFocus |-> FALSE, el |-> Body, selection |-> "unread",
     events |-> <<>>, natives |-> <<>>, clipReads |-> <<>>, clipWrites |-> <<>>,
     selected |-> <<>>, duplicates |-> <<>>, selectAlls |-> 0, outcome |-> "none",
     nativeState |-> "none"]

\* The menu.nativeModal payloads of the native edit commands.
nativeCutCommand == CUT_NATIVE_MENU_COMMMAND_ID
nativeCopyCommand == COPY_NATIVE_MENU_COMMMAND_ID
\* Native paste sent with the command id of native copy.
nativePasteAsCopy == COPY_NATIVE_MENU_COMMMAND_ID
nativePasteCommand == PASTE_NATIVE_MENU_COMMMAND_ID
nativeSelectAllCommand == SELECT_ALL_NATIVE_MENU_COMMMAND_ID

\* The command returns the promise of the native action: it settles when the
\* native action does.
startNativeAndReturn(ran, commandID) ==
    [ran EXCEPT !.natives = <<commandID>>, !.nativeState = "pending",
                !.outcome = "pending"]

\* this.flux.actions.edit.nativeCut() and the like, as a statement: the native
\* action starts, its promise is dropped and the command goes on.
startNative(ran, commandID) ==
    [ran EXCEPT !.natives = <<commandID>>, !.nativeState = "pending"]

\* The locks an action declares (reads and writes).
JS_DOC == "JS_DOC"
PS_DOC == "PS_DOC"
locks(cmd) ==
    IF cmd \in {"cut", "paste"} THEN {JS_DOC, PS_DOC}
    ELSE IF cmd = "copy" THEN {JS_DOC}
    ELSE {}

\* The locks held for the command that ran, until the dispatcher is done with it.
locksHeld == locks(last.cmd)

------------------------------------------------------------------------------
(* cut, copy, paste, select-all *)

\* No undo or redo is in flight, nor any dispatch or history step it started:
\* the dispatcher runs one of these actions at a time.
Idle ==
    /\ hist.outcome # "pending"
    /\ hist.disable # "pending"
    /\ hist.step # "pending"
    /\ hist.enable # "pending"

HistIdle ==
    [cmd |-> "none", document |-> 0, disable |-> "none", step |-> "none",
     enable |-> "none", outcome |-> "none"]

_cutOrCopyCommand(cut, cefHasFocus, el, selection, selectedNormalized) ==
    LET name == IF cut THEN "cut" ELSE "copy"
        inInput == cefHasFocus /\ _isInput(el)
        data ==
            IF inInput
            THEN IF _isTextInput(el)
                 THEN Str(Substring(el.value, el.selectionStart, el.selectionEnd))
                 ELSE Str(el.value)
            ELSE IF selection.type = "Range" THEN Str(selection.text)
                 ELSE Undefined
        elAfter ==
            IF inInput /\ _isTextInput(el) /\ cut THEN setRangeText(el, <<>>)
            ELSE el
        document == getCurrentDocument
        payload == [document |-> document.id, layers |-> selectedNormalized]
        rawPayload == JSONStringify(payload)
        ran == [NoCommand EXCEPT
                    !.cmd = name, !.cefHasFocus = cefHasFocus, !.el = elAfter,
                    !.selection = IF inInput THEN "unread" ELSE selection.type,
                    !.outcome = "resolved"]
    IN
    IF data.type = "string" THEN
        /\ last' = [ran EXCEPT
                        !.events = <<Event(name)>>,
                        !.clipWrites = <<clipboardWrite(data.val, "string")>>]
        /\ clipboard' = clipboardWrite(data.val, "string")
    ELSE IF toolModal THEN
        /\ last' = startNative(ran, IF cut THEN nativeCutCommand
                                      ELSE nativeCopyCommand)
        /\ UNCHANGED clipboard
    ELSE IF ~cut /\ ~unusable(document) THEN
        /\ last' = [ran EXCEPT
                        !.selected = selectedNormalized,
                        !.clipWrites =
                            <<clipboardWrite(rawPayload, LAYER_CLIPBOARD_FORMAT)>>]
        /\ clipboard' = clipboardWrite(rawPayload, LAYER_CLIPBOARD_FORMAT)
    ELSE
        /\ last' = ran
        /\ UNCHANGED clipboard

\* The ids are taken without resolving them.
fromLayersUnresolved(fromDocument, layerIDs) == layerIDs

\* The layers of fromDocument that the ids of the payload resolve to.
fromLayers(fromDocument, layerIDs) ==
    SelectSeq(layerIDs, LAMBDA layerID : byID(fromDocument, layerID))

pasteCommand(cefHasFocus, el, duplicated) ==
    LET inInput == cefHasFocus /\ _isInput(el)
        formats == IF inInput THEN {"string"} ELSE {LAYER_CLIPBOARD_FORMAT}
        result == clipboardRead(formats)
        data == result.data
        format == result.format
        pasted ==
            IF _isTextInput(el)
            THEN setSelectionRange(setRangeText(el, data),
                                   el.selectionStart + Len(data),
                                   el.selectionStart + Len(data))
            ELSE [el EXCEPT !.value = data]
        document == getCurrentDocument
        payload == JSONParse(data)
        fromDocument == getDocument(payload.document)
        ran == [NoCommand EXCEPT
                    !.cmd = "paste", !.cefHasFocus = cefHasFocus, !.el = el,
                    !.clipReads = <<[formats |-> formats, result |-> result]>>,
                    !.outcome = "resolved"]
    IN
    /\ UNCHANGED clipboard
    /\ IF inInput THEN
           IF format # "string" THEN last' = ran
           ELSE last' = [ran EXCEPT !.el = pasted, !.events = <<Event("paste")>>]
       ELSE IF format # LAYER_CLIPBOARD_FORMAT THEN
           last' = startNative(ran, nativePasteCommand)
       ELSE IF unusable(document) THEN
           last' = ran
       ELSE IF unusable(fromDocument) THEN
           last' = ran
       ELSE
           last' = [ran EXCEPT
                        !.duplicates =
                            <<[document |-> document.id,
                               fromDocument |-> fromDocument.id,
                               fromLayers |->
                                   fromLayers(fromDocument, payload.layers)]>>,
                        !.outcome = IF duplicated THEN "resolved" ELSE "rejected"]

selectAllCommand(cefHasFocus, el) ==
    LET inInput == cefHasFocus /\ _isInput(el)
        ran == [NoCommand EXCEPT
                    !.cmd = "selectAll", !.cefHasFocus = cefHasFocus, !.el = el,
                    !.outcome = "resolved"]
    IN
    /\ UNCHANGED clipboard
    /\ IF inInput THEN
           IF _isTextInput(el)
           THEN last' = [ran EXCEPT !.el = setSelectionRange(el, 0, Len(el.value))]
           ELSE last' = ran
       ELSE IF toolModal THEN
           last' = startNative(ran, nativeSelectAllCommand)
       ELSE
           last' = [ran EXCEPT !.selectAlls = 1]

\* What the DOM can answer for window.document.activeElement.  With the
\* keyboard focus outside the embedded browser the element's own selection is
\* never read: one text input stands for all of them.
ActiveElements(cefHasFocus) ==
    IF cefHasFocus THEN Elements
    ELSE {el \in Elements : el.selectionStart = 0 /\ el.selectionEnd = 0}

\* A command starts when the dispatcher holds no other command.
EditFrame ==
    /\ last = NoCommand
    /\ hist = HistIdle
    /\ hist' = HistIdle
    /\ UNCHANGED <<documents, currentDocument, toolModal, overlaysEnabled,
                   panel, view>>

Cut ==
    /\ EditFrame
    /\ \E cefHasFocus \in BOOLEAN, selection \in Selections :
       \E el \in ActiveElements(cefHasFocus) :
           _cutOrCopyCommand(TRUE, cefHasFocus, el, selection, <<>>)

Copy ==
    /\ EditFrame
    /\ \E cefHasFocus \in BOOLEAN, selection \in Selections :
       \E el \in ActiveElements(cefHasFocus) :
       \E selectedNormalized \in Arrangements(getCurrentDocument.layers) :
           _cutOrCopyCommand(FALSE, cefHasFocus, el, selection, selectedNormalized)

Paste ==
    /\ EditFrame
    /\ \E cefHasFocus \in BOOLEAN, duplicated \in BOOLEAN :
       \E el \in ActiveElements(cefHasFocus) :
           pasteCommand(cefHasFocus, el, duplicated)

SelectAll ==
    /\ EditFrame
    /\ \E cefHasFocus \in BOOLEAN : \E el \in ActiveElements(cefHasFocus) :
           selectAllCommand(cefHasFocus, el)

------------------------------------------------------------------------------
(* undo, redo *)

Settled(ok) == IF ok THEN "fulfilled" ELSE "rejected"

\* The handler runs as soon as the history step is fulfilled.
joinSettledOnStep(h) ==
    IF h.outcome # "pending" \/ h.enable # "none" THEN h
    ELSE IF h.disable = "rejected" \/ h.step = "rejected"
    THEN [h EXCEPT !.outcome = "rejected"]
    ELSE IF h.step = "fulfilled"
    THEN [h EXCEPT !.enable = "pending"]
    ELSE h

\* Promise.join(disable, step, handler): the handler runs once both promises
\* are fulfilled and dispatches TOGGLE_OVERLAYS {enabled: true}; the join
\* rejects as soon as one of them rejects, and the handler never runs.
joinSettled(h) ==
    IF h.outcome # "pending" \/ h.enable # "none" THEN h
    ELSE IF h.disable = "rejected" \/ h.step = "rejected"
    THEN [h EXCEPT !.outcome = "rejected"]
    ELSE IF h.disable = "fulfilled" /\ h.step = "fulfilled"
    THEN [h EXCEPT !.enable = "pending"]
    ELSE h

\* undoCommand and redoCommand: both arguments of Promise.join are evaluated,
\* so the dispatch of {enabled: false} and the history step are both started.
historyCommand(name) ==
    LET currentDoc == getCurrentDocument IN
    IF currentDoc.null
    THEN hist' = [HistIdle EXCEPT !.cmd = name, !.outcome = "resolved"]
    ELSE hist' = [cmd |-> name, document |-> currentDoc.id,
                  disable |-> "pending", step |-> "pending",
                  enable |-> "none", outcome |-> "pending"]

undoCommand == historyCommand("undo")
redoCommand == historyCommand("redo")

HistoryFrame ==
    /\ last = NoCommand
    /\ hist = HistIdle
    /\ UNCHANGED <<documents, currentDocument, toolModal, clipboard,
                   overlaysEnabled, last, panel, view>>

Undo == HistoryFrame /\ undoCommand

Redo == HistoryFrame /\ redoCommand

\* dispatchAsync(TOGGLE_OVERLAYS, {enabled: false}) takes effect or fails.
DisableSettles ==
    /\ hist.disable = "pending"
    /\ \E ok \in BOOLEAN :
        /\ overlaysEnabled' = IF ok THEN FALSE ELSE overlaysEnabled
        /\ hist' = joinSettled([hist EXCEPT !.disable = Settled(ok)])
    /\ UNCHANGED <<documents, currentDocument, toolModal, clipboard, last,
                   panel, view>>

\* history.decrementHistory / history.incrementHistory completes or fails.
StepSettles ==
    /\ hist.step = "pending"
    /\ \E ok \in BOOLEAN :
        hist' = joinSettled([hist EXCEPT !.step = Settled(ok)])
    /\ UNCHANGED <<documents, currentDocument, toolModal, clipboard,
                   overlaysEnabled, last, panel, view>>

\* dispatchAsync(TOGGLE_OVERLAYS, {enabled: true}) takes effect or fails; the
\* command settles with it.
EnableSettles ==
    /\ hist.enable = "pending"
    /\ \E ok \in BOOLEAN :
        /\ overlaysEnabled' = IF ok THEN TRUE ELSE overlaysEnabled
        /\ hist' = [hist EXCEPT !.enable = Settled(ok),
                                !.outcome = IF ok THEN "resolved" ELSE "rejected"]
    /\ UNCHANGED <<documents, currentDocument, toolModal, clipboard, last,
                   panel, view>>

------------------------------------------------------------------------------
(* The stores and the clipboard change between commands *)

EnvFrame ==
    /\ last = NoCommand
    /\ hist = HistIdle
    /\ UNCHANGED <<last, hist>>
    /\ UNCHANGED <<overlaysEnabled, panel, view>>

\* The native action a command started fulfils or rejects.
NativeSettles ==
    /\ last.nativeState = "pending"
    /\ \E ok \in BOOLEAN : last' = [last EXCEPT !.nativeState = Settled(ok)]
    /\ UNCHANGED <<documents, currentDocument, toolModal, clipboard,
                   overlaysEnabled, hist, panel, view>>

\* The dispatcher is done with the command that ran: its promise has settled
\* and its locks are free again.
Release ==
    /\ Idle
    /\ last.outcome # "pending"
    /\ last # NoCommand \/ hist # HistIdle
    /\ last' = NoCommand
    /\ hist' = HistIdle
    /\ UNCHANGED <<documents, currentDocument, toolModal, clipboard,
                   overlaysEnabled, panel, view>>

\* A document is closed; the current document goes with it.
CloseDocument ==
    /\ EnvFrame
    /\ \E id \in DocIDs :
        /\ documents[id].open
        /\ documents' = [documents EXCEPT ![id] = ClosedDocument]
        /\ currentDocument' = IF currentDocument = id THEN 0 ELSE currentDocument
    /\ UNCHANGED <<toolModal, clipboard>>

\* Another open document becomes the current one.
SelectDocument ==
    /\ EnvFrame
    /\ \E id \in DocIDs :
        /\ documents[id].open
        /\ id # currentDocument
        /\ currentDocument' = id
    /\ UNCHANGED <<documents, toolModal, clipboard>>

\* A layer of an open document is deleted, or one is added.  The layers of an
\* unsupported document are never read and stay as they are.
DeleteLayer ==
    /\ EnvFrame
    /\ \E id \in DocIDs : \E layerID \in documents[id].layers :
        /\ ~documents[id].unsupported
        /\ documents' = [documents EXCEPT ![id].layers = @ \ {layerID}]
    /\ UNCHANGED <<currentDocument, toolModal, clipboard>>

AddLayer ==
    /\ EnvFrame
    /\ \E id \in DocIDs : \E layerID \in LayerIDs \ documents[id].layers :
        /\ documents[id].open
        /\ ~documents[id].unsupported
        /\ documents' = [documents EXCEPT ![id].layers = @ \cup {layerID}]
    /\ UNCHANGED <<currentDocument, toolModal, clipboard>>

\* The host enters or leaves a modal tool state.
ToggleModalToolState ==
    /\ EnvFrame
    /\ toolModal' = ~toolModal
    /\ UNCHANGED <<documents, currentDocument, clipboard>>

\* Another application, or a native command, puts text or an image on the
\* clipboard.
ExternalCopy ==
    /\ EnvFrame
    /\ \E c \in {clipboardWrite(Text, "string"), clipboardWrite(<<>>, "image")} :
        /\ c # clipboard
        /\ clipboard' = c
    /\ UNCHANGED <<documents, currentDocument, toolModal>>

------------------------------------------------------------------------------
(* JavaScript values of the view props *)

JSUndefined == [t |-> "undefined", v |-> <<>>]
JSFalse == [t |-> "false", v |-> <<>>]
JSTrue == [t |-> "true", v |-> <<>>]
JSObject(v) == [t |-> "object", v |-> v]

Truthy(x) == x.t \notin {"undefined", "null", "false"}

\* a && b
JSAnd(a, b) == IF Truthy(a) THEN b ELSE a

JSBool(b) == IF b THEN JSTrue ELSE JSFalse

------------------------------------------------------------------------------
(* LibrariesPanel *)

PanelProps ==
    [disabled : {JSUndefined, JSFalse, JSTrue},
     visible : {JSUndefined, JSFalse, JSTrue},
     visibleSibling : {JSFalse, JSTrue}]

\* Re-render only when disabled changes or the panel goes from hidden to shown.
shouldComponentUpdateOnShow(props, nextProps) ==
    \/ props.disabled # nextProps.disabled
    \/ (~Truthy(props.visible) /\ Truthy(nextProps.visible))

\* LibrariesPanel.shouldComponentUpdate, with this.props as props.
shouldComponentUpdate(props, nextProps) ==
    IF props.disabled # nextProps.disabled THEN TRUE
    ELSE IF ~Truthy(nextProps.visible) /\ ~Truthy(props.visible) THEN FALSE
    ELSE TRUE

PanelIdle == [prev |-> <<>>, props |-> <<>>, update |-> "none"]

\* The parent renders the panel with new props.
PanelReceivesProps ==
    /\ \E nextProps \in PanelProps :
        panel' = [prev |-> panel.props, props |-> nextProps,
                  update |-> IF shouldComponentUpdate(panel.props, nextProps)
                             THEN "true" ELSE "false"]
    /\ UNCHANGED <<documents, currentDocument, toolModal, clipboard,
                   overlaysEnabled, last, hist, view>>

------------------------------------------------------------------------------
(* Layer *)

\* The layer kinds that matter here (layer.layerKinds).
GROUP == "group"
GROUPEND == "groupend"
LayerKinds == {"pixel", GROUP, GROUPEND}

\* The layers of a document in index order, each by its kind: a group opens
\* with a GROUP layer and closes with its GROUPEND layer.  A layer is named by
\* its index.
RECURSIVE Depth(_)
Depth(kinds) ==
    IF kinds = <<>> THEN 0
    ELSE LET rest == Depth(SubSeq(kinds, 1, Len(kinds) - 1))
             kind == kinds[Len(kinds)]
         IN  IF kind = GROUP THEN rest + 1
             ELSE IF kind = GROUPEND THEN rest - 1
             ELSE rest

LayerLists ==
    {kinds \in UNION {[1 .. n -> LayerKinds] : n \in 1 .. MaxNodes} :
        /\ Depth(kinds) = 0
        /\ \A n \in 1 .. Len(kinds) : Depth(SubSeq(kinds, 1, n)) >= 0}

\* The index of the GROUPEND layer that closes the group at index layer.
GroupEnd(kinds, layer) ==
    CHOOSE end \in layer + 1 .. Len(kinds) :
        /\ Depth(SubSeq(kinds, layer, end)) = 0
        /\ \A e \in layer + 1 .. end - 1 : Depth(SubSeq(kinds, layer, e)) > 0

\* doc.layers.descendants(layer): the layer itself and all layers below it.
descendants(kinds, layer) ==
    IF kinds[layer] = GROUP
    THEN [k \in 1 .. GroupEnd(kinds, layer) - layer + 1 |-> layer + k - 1]
    ELSE <<layer>>

\* The innermost group a layer lies in, 0 at the top level.
Parent(kinds, layer) ==
    LET groups == {g \in 1 .. layer - 1 :
                      kinds[g] = GROUP /\ layer <= GroupEnd(kinds, g)}
    IN  IF groups = {} THEN 0
        ELSE CHOOSE g \in groups : \A h \in groups : h <= g

\* doc.layers.children(layer): the direct children, in index order.
children(kinds, layer) ==
    SelectSeq([k \in 1 .. Len(kinds) |-> k],
              LAMBDA child : Parent(kinds, child) = layer)

\* List.indexOf, 0-based, -1 when absent.
indexOf(list, x) ==
    IF \E k \in DOMAIN list : list[k] = x
    THEN (CHOOSE k \in DOMAIN list : list[k] = x /\ \A j \in 1 .. k - 1 : list[j] # x) - 1
    ELSE -1

\* x.keyObject: the layer of a drop target, undefined (no layer) for false.
keyObject(x) == IF x.t = "object" THEN x.v[1] ELSE 0

\* Ascending lists of at most MaxDrag of the layers.
DragLists(kinds) ==
    {list \in UNION {[1 .. n -> 1 .. Len(kinds)] : n \in 0 .. MaxDrag} :
        \A k \in 1 .. Len(list) - 1 : list[k] < list[k + 1]}

LayerProps(kinds) ==
    [document : {JSUndefined, JSObject(<<>>)},
     layer : {layer \in 1 .. Len(kinds) : kinds[layer] # GROUPEND},
     dragTarget : {JSUndefined, JSFalse} \cup
                  {JSObject(list) : list \in DragLists(kinds)},
     dropTarget : {JSUndefined, [t |-> "null", v |-> <<>>], JSFalse} \cup
                  {JSObject(<<layer>>) : layer \in 1 .. Len(kinds)},
     dragPosition : {JSUndefined, JSObject(<<"above">>)},
     dropBounds : {JSUndefined, JSObject(<<"bounds">>)}]

\* What render hands to the Layer component of one child.
childProps(kinds, props, child) ==
    LET childLayerIndex ==
            indexOf(descendants(kinds, child), keyObject(props.dropTarget))
        shouldPassDropTarget ==
            Truthy(props.dropTarget) /\ childLayerIndex # -1
        shouldPassDragTarget ==
            IF Truthy(props.dragTarget)
            THEN \E k \in DOMAIN props.dragTarget.v :
                     indexOf(descendants(kinds, child), props.dragTarget.v[k]) # -1
            ELSE FALSE
    IN  [layer |-> child,
         dragTarget |-> JSAnd(JSBool(shouldPassDragTarget), props.dragTarget),
         dropTarget |-> JSAnd(JSBool(shouldPassDropTarget), props.dropTarget),
         dragPosition |-> JSAnd(JSBool(shouldPassDropTarget \/ shouldPassDragTarget),
                                props.dragPosition),
         dropBounds |-> JSAnd(JSBool(shouldPassDropTarget), props.dropBounds)]

\* Layer.render: the child list items, or a TypeError: mapping a child reads
\* this.props.dropTarget.keyObject before dropTarget is tested.
render(kinds, props) ==
    LET childLayers ==
            IF Truthy(props.document) THEN children(kinds, props.layer) ELSE <<>>
        shown == SelectSeq(childLayers, LAMBDA layer : kinds[layer] # GROUPEND)
    IN  IF shown # <<>> /\ props.dropTarget.t \in {"undefined", "null"}
        THEN [rendered |-> TRUE, threw |-> TRUE, children |-> <<>>]
        ELSE [rendered |-> TRUE, threw |-> FALSE,
              children |-> [k \in DOMAIN shown |-> childProps(kinds, props, shown[k])]]

NotRendered == [rendered |-> FALSE, threw |-> FALSE, children |-> <<>>]
ViewIdle == [layers |-> <<>>, props |-> <<>>, out |-> NotRendered]

\* React renders the component with the props it holds.
Render ==
    /\ ~view.out.rendered
    /\ view' = [view EXCEPT !.out = render(view.layers, view.props)]
    /\ UNCHANGED <<documents, currentDocument, toolModal, clipboard,
                   overlaysEnabled, last, hist, panel>>

------------------------------------------------------------------------------
(* Layer: the decision to re-render *)

MaxTree == 3

\* A prop value together with the identity of the object that holds it: ref
\* names the object, 0 stands for a primitive.
JSRef(ref, v) == [t |-> "object", ref |-> ref, v |-> v]
JSPrimitive(t, v) == [t |-> t, ref |-> 0, v |-> v]

\* a === b: the same object, or the same primitive.
StrictEquals(a, b) ==
    IF a.t = "object" /\ b.t = "object" THEN a.ref = b.ref ELSE a = b

\* Immutable.is(a, b): lists by their elements, anything else as ===.
ImmutableIs(a, b) ==
    IF a.t = "list" /\ b.t = "list" THEN a.v = b.v ELSE StrictEquals(a, b)

\* The layer trees of at most MaxTree layers.
TreeLists == {kinds \in LayerLists : Len(kinds) <= MaxTree}

\* The visibility of each layer: all visible, or one layer hidden.
Visibilities(kinds) ==
    {[k \in 1 .. Len(kinds) |-> k # hidden] : hidden \in 0 .. Len(kinds)}

\* The props the component holds (this.props) ...
ThisLayerProps(kinds) ==
    [document : {JSPrimitive("undefined", <<>>), JSRef(1, <<>>)},
     layer : {layer \in 1 .. Len(kinds) : kinds[layer] # GROUPEND},
     dragTarget : {JSRef(1, <<1>>)},
     dropTarget : {JSRef(1, <<1>>)},
     dragPosition : {JSPrimitive("string", <<"above">>)},
     dropBounds : {JSRef(1, <<"bounds">>)}]

\* ... and the props it may be handed next: each object is the one it holds,
\* another object with the same content, or false.
NextLayerProps(kinds) ==
    [document : {JSPrimitive("undefined", <<>>), JSRef(1, <<>>)},
     layer : {layer \in 1 .. Len(kinds) : kinds[layer] # GROUPEND},
     dragTarget : {JSPrimitive("false", <<>>), JSRef(1, <<1>>), JSRef(2, <<1>>)},
     dropTarget : {JSPrimitive("false", <<>>), JSRef(1, <<1>>), JSRef(2, <<1>>)},
     dragPosition : {JSPrimitive("string", <<"above">>),
                     JSPrimitive("string", <<"below">>)},
     dropBounds : {JSRef(1, <<"bounds">>), JSRef(2, <<"bounds">>)}]

\* getDescendants(props): doc && doc.layers.descendants(layer), the layers as
\* the records they are.  c is the component: its document's layers and props.
getDescendants(c) ==
    IF Truthy(c.props.document)
    THEN LET list == descendants(c.layers, c.props.layer)
         IN  [t |-> "list", ref |-> 0,
              v |-> [k \in DOMAIN list |->
                        [index |-> list[k], kind |-> c.layers[list[k]],
                         visible |-> c.visible[list[k]]]]]
    ELSE c.props.document

\* Re-render whenever the layers of the document change.
LayerShouldComponentUpdateOnDocument(this, next) ==
    \/ ~StrictEquals(this.props.dragTarget, next.props.dragTarget)
    \/ ~StrictEquals(this.props.dropTarget, next.props.dropTarget)
    \/ ~StrictEquals(this.props.dragPosition, next.props.dragPosition)
    \/ this.props.document # next.props.document
    \/ this.layers # next.layers
    \/ this.visible # next.visible

\* Layer.shouldComponentUpdate, with this.props and nextProps each together
\* with the layers of its document.
LayerShouldComponentUpdate(this, next) ==
    \/ ~StrictEquals(this.props.dragTarget, next.props.dragTarget)
    \/ ~StrictEquals(this.props.dropTarget, next.props.dropTarget)
    \/ ~StrictEquals(this.props.dragPosition, next.props.dragPosition)
    \/ ~ImmutableIs(getDescendants(this), getDescendants(next))

\* The parent renders the layer with new props, once.
LayerReceivesProps ==
    /\ view.update = "none"
    /\ \E kinds \in TreeLists :
       \E visible \in Visibilities(kinds), nextProps \in NextLayerProps(kinds) :
        LET this == [layers |-> view.layers, visible |-> view.visible,
                     props |-> view.props]
            next == [layers |-> kinds, visible |-> visible, props |-> nextProps]
        IN  view' = [prev |-> this, layers |-> kinds, visible |-> visible,
                     props |-> nextProps,
                     update |-> IF LayerShouldComponentUpdate(this, next)
                                THEN "true" ELSE "false",
                     out |-> NotRendered]
    /\ UNCHANGED <<documents, currentDocument, toolModal, clipboard,
                   overlaysEnabled, last, hist, panel>>

------------------------------------------------------------------------------
(* Specification of the edit actions *)

Init ==
    /\ documents \in [DocIDs -> {[open |-> TRUE, unsupported |-> u, layers |-> LayerIDs] :
                                    u \in BOOLEAN}]
    /\ currentDocument \in DocIDs \cup {0}
    /\ toolModal = FALSE
    /\ clipboard = EmptyClipboard
    /\ overlaysEnabled = TRUE
    /\ last = NoCommand
    /\ hist = HistIdle
    /\ panel = PanelIdle
    /\ view = ViewIdle

Next ==
    \/ Cut
    \/ Copy
    \/ Paste
    \/ SelectAll
    \/ Undo
    \/ Redo
    \/ DisableSettles
    \/ StepSettles
    \/ EnableSettles
    \/ NativeSettles
    \/ Release
    \/ CloseDocument
    \/ SelectDocument
    \/ DeleteLayer
    \/ AddLayer
    \/ ToggleModalToolState
    \/ ExternalCopy

Spec == Init /\ [][Next]_vars

------------------------------------------------------------------------------
(* Specification of the LibrariesPanel *)

EditAtRest ==
    /\ documents = [id \in DocIDs |-> ClosedDocument]
    /\ currentDocument = 0
    /\ toolModal = FALSE
    /\ clipboard = EmptyClipboard
    /\ overlaysEnabled = TRUE
    /\ last = NoCommand
    /\ hist = HistIdle

InitPanel ==
    /\ EditAtRest
    /\ panel \in {[prev |-> props, props |-> props, update |-> "none"] :
                     props \in PanelProps}
    /\ view = ViewIdle

NextPanel == PanelReceivesProps

SpecPanel == InitPanel /\ [][NextPanel]_vars

------------------------------------------------------------------------------
(* Specification of the Layer view *)

InitLayer ==
    /\ EditAtRest
    /\ panel = PanelIdle
    /\ \E kinds \in LayerLists : \E props \in LayerProps(kinds) :
        view = [layers |-> kinds, props |-> props, out |-> NotRendered]

NextLayer == Render

SpecLayer == InitLayer /\ [][NextLayer]_vars

------------------------------------------------------------------------------
(* Specification of the Layer view's decision to re-render *)

InitUpdate ==
    /\ EditAtRest
    /\ panel = PanelIdle
    /\ \E kinds \in TreeLists : \E props \in ThisLayerProps(kinds) :
        view = [prev |-> <<>>, layers |-> kinds,
                visible |-> [k \in 1 .. Len(kinds) |-> TRUE], props |-> props,
                update |-> "none", out |-> NotRendered]

NextUpdate == LayerReceivesProps

SpecUpdate == InitUpdate /\ [][NextUpdate]_vars

------------------------------------------------------------------------------
(* Properties of undo and redo *)

\* C1 (as claimed): once an undo or redo that started with a current document
\* has completed, with nothing it started still pending, a TOGGLE_OVERLAYS
\* dispatch with enabled=true has been issued and the overlays are enabled,
\* whatever the outcome of the disabling dispatch and of the history step.
C1_OverlaysAlwaysReenabled ==
    (hist.cmd \in {"undo", "redo"} /\ hist.disable # "none" /\ Idle)
        => (hist.enable # "none" /\ overlaysEnabled)

\* C7 (as claimed): the history step begins only after the dispatch with
\* enabled=false has taken effect, and enabled=true is dispatched only after
\* the disabling dispatch and the history step have both completed.
C7_ThreeStepsInOrder ==
    /\ hist.step # "none" => hist.disable = "fulfilled"
    /\ hist.enable # "none" => (hist.disable = "fulfilled" /\ hist.step = "fulfilled")

\* C7 (amended): the disabling dispatch and the history step are started
\* together, neither waiting for the other; enabled=true is dispatched only
\* after both have been fulfilled, and never before the history step finishes.
C7_EnableAfterBoth ==
    /\ hist.cmd \in {"undo", "redo"} /\ currentDocument # 0
           => (hist.disable # "none" /\ hist.step # "none")
    /\ hist.enable # "none" => (hist.disable = "fulfilled" /\ hist.step = "fulfilled")

\* The history step finished first and the overlays were disabled after it;
\* then the overlays were enabled again.
C7_Witness ==
    /\ hist.cmd = "redo"
    /\ hist.enable = "fulfilled"
    /\ overlaysEnabled

------------------------------------------------------------------------------
(* Properties of cut, copy, paste and select-all *)

\* C2: a copy that takes the layer branch writes, under the layer format, the
\* JSON text of the current document's id and the ids of its normalized
\* selected layers, and that text parses back to them; a paste that reads such
\* a payload of document D and layers L, with a supported current document and
\* D still open and supported, hands layers.duplicate the current document,
\* D, and exactly the ids of L that D still has, in the order of L.
C2_CopyPasteRoundTrip ==
    /\ (/\ last.cmd = "copy"
        /\ ~(last.cefHasFocus /\ last.el.tag = "input")
        /\ last.selection # "Range"
        /\ ~toolModal
        /\ currentDocument # 0
        /\ ~documents[currentDocument].unsupported)
       => /\ last.clipWrites =
                <<[format |-> LAYER_CLIPBOARD_FORMAT,
                   data |-> JSONStringify([document |-> currentDocument,
                                           layers |-> last.selected])]>>
          /\ clipboard = last.clipWrites[1]
          /\ JSONParse(clipboard.data) =
                [document |-> currentDocument, layers |-> last.selected]
    /\ \A D \in DocIDs : \A L \in Arrangements(LayerIDs) :
        (/\ last.cmd = "paste"
         /\ ~(last.cefHasFocus /\ last.el.tag = "input")
         /\ clipboard = [format |-> LAYER_CLIPBOARD_FORMAT,
                         data |-> JSONStringify([document |-> D, layers |-> L])]
         /\ currentDocument # 0
         /\ ~documents[currentDocument].unsupported
         /\ documents[D].open
         /\ ~documents[D].unsupported)
        => last.duplicates =
               <<[document |-> currentDocument, fromDocument |-> D,
                  fromLayers |->
                      SelectSeq(L, LAMBDA id : id \in documents[D].layers)]>>

\* A paste into another document of a payload of two layers of which the
\* source document has lost one.
C2_Witness ==
    /\ last.cmd = "paste"
    /\ last.duplicates # <<>>
    /\ last.duplicates[1].document # last.duplicates[1].fromDocument
    /\ Len(last.duplicates[1].fromLayers) = 1
    /\ Len(JSONParse(clipboard.data).layers) = 2

\* C3: a paste outside a focused input that finds the clipboard in another
\* format than the layer format invokes native paste once, does not duplicate
\* layers and resolves, with or without a (supported) current document.
C3_FormatMismatchFallsBack ==
    (/\ last.cmd = "paste"
     /\ ~(last.cefHasFocus /\ last.el.tag = "input")
     /\ clipboard.format # LAYER_CLIPBOARD_FORMAT)
    => /\ last.natives = <<PASTE_NATIVE_MENU_COMMMAND_ID>>
       /\ last.duplicates = <<>>
       /\ last.outcome = "resolved"

\* Such a paste with no current document.
C3_Witness ==
    /\ last.cmd = "paste"
    /\ ~last.cefHasFocus
    /\ clipboard.format = "string"
    /\ currentDocument = 0
    /\ last.natives # <<>>

\* C4: with the keyboard focus in the embedded browser and an input as active
\* element, cut, copy, paste and select-all invoke no native command, neither
\* layers.selectAll nor layers.duplicate, and neither write nor read the
\* clipboard under the layer format.
C4_InputBranchIsExclusive ==
    (/\ last.cmd \in {"cut", "copy", "paste", "selectAll"}
     /\ last.cefHasFocus
     /\ last.el.tag = "input")
    => /\ last.natives = <<>>
       /\ last.selectAlls = 0
       /\ last.duplicates = <<>>
       /\ \A k \in DOMAIN last.clipWrites :
              last.clipWrites[k].format = "string"
       /\ \A k \in DOMAIN last.clipReads :
              LAYER_CLIPBOARD_FORMAT \notin last.clipReads[k].formats

\* A paste into a focused input while the host is in a modal tool state and
\* the clipboard holds layers.
C4_Witness ==
    /\ last.cmd = "paste"
    /\ last.cefHasFocus
    /\ last.el.tag = "input"
    /\ toolModal
    /\ clipboard.format = LAYER_CLIPBOARD_FORMAT

\* C5 (as claimed): outside a focused input, with no text range selected and
\* the tool store in a modal tool state, each of cut, copy, paste and
\* select-all invokes its native command and writes no layer payload,
\* duplicates no layers and does not call layers.selectAll.
C5_ModalStateGoesNative ==
    (/\ last.cmd \in {"cut", "copy", "paste", "selectAll"}
     /\ ~(last.cefHasFocus /\ last.el.tag = "input")
     /\ last.selection # "Range"
     /\ toolModal)
    => /\ last.natives =
            << (IF last.cmd = "cut" THEN CUT_NATIVE_MENU_COMMMAND_ID
                ELSE IF last.cmd = "copy" THEN COPY_NATIVE_MENU_COMMMAND_ID
                ELSE IF last.cmd = "paste" THEN PASTE_NATIVE_MENU_COMMMAND_ID
                ELSE SELECT_ALL_NATIVE_MENU_COMMMAND_ID) >>
       /\ last.clipWrites = <<>>
       /\ last.duplicates = <<>>
       /\ last.selectAlls = 0

\* C6 (as claimed): in the input branch every invocation of cut, copy, paste
\* and select-all dispatches one bubbling event on the element.
C6_EveryInputCommandEmits ==
    (/\ last.cmd \in {"cut", "copy", "paste", "selectAll"}
     /\ last.cefHasFocus
     /\ last.el.tag = "input")
    => /\ Len(last.events) = 1
       /\ last.events[1].bubbles
       /\ last.events[1].type =
              IF last.cmd = "selectAll" THEN "select" ELSE last.cmd

\* C6 (amended): in the input branch cut and copy always dispatch one bubbling
\* "cut" / "copy" event, paste dispatches one bubbling "paste" event exactly
\* when the clipboard read returns the string format, and select-all
\* dispatches no event.
C6_InputEvents ==
    (last.cefHasFocus /\ last.el.tag = "input")
    => /\ last.cmd \in {"cut", "copy"}
            => last.events = <<[type |-> last.cmd, bubbles |-> TRUE]>>
       /\ last.cmd = "paste"
            => last.events = IF clipboard.format = "string"
                             THEN <<[type |-> "paste", bubbles |-> TRUE]>>
                             ELSE <<>>
       /\ last.cmd = "selectAll" => last.events = <<>>

\* A paste of clipboard text into a focused text input.
C6_Witness ==
    /\ last.cmd = "paste"
    /\ last.cefHasFocus
    /\ last.el.type = "text"
    /\ clipboard.format = "string"
    /\ clipboard.data # <<>>
    /\ last.el.value # Text

\* C8: copy in the layer branch without a usable current document writes
\* nothing; paste of a layer payload without a usable current document or
\* without a usable source document neither duplicates layers nor invokes
\* native paste; undo and redo without a current document dispatch nothing and
\* start no history step.  Each of them resolves and calls no other action.
C8_MissingDocumentIsNoOp ==
    /\ (/\ last.cmd = "copy"
        /\ ~(last.cefHasFocus /\ last.el.tag = "input")
        /\ last.selection # "Range"
        /\ ~toolModal
        /\ (currentDocument = 0 \/ documents[currentDocument].unsupported))
       => /\ last.clipWrites = <<>>
          /\ last.natives = <<>>
          /\ last.events = <<>>
          /\ last.outcome = "resolved"
    /\ \A D \in DocIDs : \A L \in Arrangements(LayerIDs) :
        (/\ last.cmd = "paste"
         /\ ~(last.cefHasFocus /\ last.el.tag = "input")
         /\ clipboard = [format |-> LAYER_CLIPBOARD_FORMAT,
                         data |-> JSONStringify([document |-> D, layers |-> L])]
         /\ \/ currentDocument = 0
            \/ documents[currentDocument].unsupported
            \/ ~documents[D].open
            \/ documents[D].unsupported)
        => /\ last.duplicates = <<>>
           /\ last.natives = <<>>
           /\ last.events = <<>>
           /\ last.outcome = "resolved"
    /\ (hist.cmd \in {"undo", "redo"} /\ currentDocument = 0)
       => /\ hist.disable = "none"
          /\ hist.step = "none"
          /\ hist.enable = "none"
          /\ hist.outcome = "resolved"

\* A paste of a layer payload whose source document has been closed, into a
\* supported current document.
C8_Witness ==
    /\ last.cmd = "paste"
    /\ ~last.cefHasFocus
    /\ clipboard.format = LAYER_CLIPBOARD_FORMAT
    /\ currentDocument # 0
    /\ ~documents[currentDocument].unsupported
    /\ ~documents[JSONParse(clipboard.data).document].open

------------------------------------------------------------------------------
(* Properties of the views *)

\* C9 (as claimed): shouldComponentUpdate returns true only if disabled
\* differs or visible goes from false to true.
C9_UpdateOnlyWhenShown ==
    panel.update = "true"
        => \/ panel.prev.disabled # panel.props.disabled
           \/ (~Truthy(panel.prev.visible) /\ Truthy(panel.props.visible))

\* C9 (amended): shouldComponentUpdate returns false exactly when disabled is
\* unchanged and visible is false both in the current and in the next props;
\* it returns true for every other pair, also when visible stays true or goes
\* from true to false.
C9_SuppressedOnlyWhileHidden ==
    panel.update # "none"
        => (panel.update = "false"
                <=> /\ panel.prev.disabled = panel.props.disabled
                    /\ ~Truthy(panel.prev.visible)
                    /\ ~Truthy(panel.props.visible))

\* The panel is hidden, with disabled unchanged, and re-renders.
C9_Witness ==
    /\ panel.update = "true"
    /\ panel.prev.disabled = panel.props.disabled
    /\ Truthy(panel.prev.visible)
    /\ ~Truthy(panel.props.visible)

\* C10 (as claimed): render yields one entry per direct child that is not a
\* GROUPEND layer, in order, and no other; a child gets the parent's dropTarget
\* and dropBounds exactly when the drop target's keyObject is among its
\* descendants, the parent's dragTarget exactly when a dragged layer is among
\* its descendants, dragPosition exactly when it gets one of the two, and
\* false otherwise, for every dropTarget including an absent one.
C10_RenderPassesTargets ==
    view.out.rendered =>
        LET kinds == view.layers
            props == view.props
            kids == IF Truthy(props.document)
                    THEN {c \in 1 .. Len(kinds) :
                             Parent(kinds, c) = props.layer /\ kinds[c] # GROUPEND}
                    ELSE {}
            out == view.out.children
            below(c) == Range(descendants(kinds, c))
            dropHit(c) == props.dropTarget.t = "object" /\ props.dropTarget.v[1] \in below(c)
            dragHit(c) == props.dragTarget.t = "object"
                          /\ Range(props.dragTarget.v) \cap below(c) # {}
        IN  /\ ~view.out.threw
            /\ Len(out) = Cardinality(kids)
            /\ {out[k].layer : k \in DOMAIN out} = kids
            /\ \A j, k \in DOMAIN out : j < k => out[j].layer < out[k].layer
            /\ \A k \in DOMAIN out :
                LET c == out[k].layer IN
                /\ out[k].dropTarget = IF dropHit(c) THEN props.dropTarget ELSE JSFalse
                /\ out[k].dropBounds = IF dropHit(c) THEN props.dropBounds ELSE JSFalse
                /\ out[k].dragTarget = IF dragHit(c) THEN props.dragTarget ELSE JSFalse
                /\ out[k].dragPosition = IF dropHit(c) \/ dragHit(c)
                                         THEN props.dragPosition ELSE JSFalse

\* C11: Layer.shouldComponentUpdate returns true exactly when dragTarget,
\* dropTarget or dragPosition is not the identical value in the next props, or
\* the descendants of the layer in the next document are not structurally
\* equal to those in the current document (one document is absent and the
\* other is not, the lists differ in length, or some descendant differs);
\* a change of dropBounds alone, or of the document outside the layer's
\* descendants, never triggers a re-render.
C11_UpdateExactlyOnChange ==
    view.update # "none" =>
        LET this == view.prev
            next == view
            same(a, b) == IF a.t = "object" THEN b.t = "object" /\ a.ref = b.ref
                          ELSE a.t = b.t /\ a.v = b.v
            has(c) == c.props.document.t = "object"
            first(c) == c.props.layer
            open(c, k) ==
                Cardinality({j \in first(c) .. k : c.layers[j] = GROUP})
                    - Cardinality({j \in first(c) .. k : c.layers[j] = GROUPEND})
            size(c) == Cardinality({k \in first(c) .. Len(c.layers) :
                                       \A j \in first(c) .. k - 1 : open(c, j) > 0})
            equalDescendants ==
                IF has(this) /\ has(next)
                THEN /\ first(this) = first(next)
                     /\ size(this) = size(next)
                     /\ \A k \in first(this) .. first(this) + size(this) - 1 :
                         /\ this.layers[k] = next.layers[k]
                         /\ this.visible[k] = next.visible[k]
                ELSE ~has(this) /\ ~has(next)
        IN  view.update = "true"
                <=> \/ ~same(this.props.dragTarget, next.props.dragTarget)
                    \/ ~same(this.props.dropTarget, next.props.dropTarget)
                    \/ ~same(this.props.dragPosition, next.props.dragPosition)
                    \/ ~equalDescendants

\* The document gets a layer outside the group the component shows, one that
\* was not there before, and dropBounds is another object: no re-render.
C11_Witness ==
    /\ view.update = "false"
    /\ view.prev.props.document.t = "object"
    /\ view.prev.layers[view.prev.props.layer] = GROUP
    /\ Len(view.layers) > Len(view.prev.layers)
    /\ view.props.dropBounds.ref # view.prev.props.dropBounds.ref

\* C12: a cut that finds no focused input and no selected text range, while the
\* tool store is not in a modal tool state, writes nothing to the clipboard,
\* starts no native command, dispatches no event, duplicates or selects no
\* layer and resolves; the clipboard, the documents and the current document
\* are after the cut what they were before it.
C12_CutLeavesLayersAlone ==
    [][(/\ last.cmd = "none"
        /\ last'.cmd = "cut"
        /\ ~(last'.cefHasFocus /\ last'.el.tag = "input")
        /\ last'.selection # "Range"
        /\ ~toolModal)
       => /\ clipboard' = clipboard
          /\ documents' = documents
          /\ currentDocument' = currentDocument
          /\ last'.clipWrites = <<>>
          /\ last'.natives = <<>>
          /\ last'.events = <<>>
          /\ last'.duplicates = <<>>
          /\ last'.selectAlls = 0
          /\ last'.outcome = "resolved"]_vars

\* Layers were copied, then a cut ran outside any input with layers in the
\* current document: the clipboard still holds the copied layers.
C12_Witness ==
    /\ last.cmd = "cut"
    /\ ~last.cefHasFocus
    /\ last.selection = "None"
    /\ ~toolModal
    /\ clipboard.format = LAYER_CLIPBOARD_FORMAT
    /\ ~unusable(getCurrentDocument)
    /\ getCurrentDocument.layers # {}

\* C13: a native command that cut, copy, paste or select-all started is not
\* awaited: whether it is still pending, has fulfilled or has rejected, the
\* command that started it has resolved, and the dispatcher can be done with
\* that command, freeing the locks it holds, at once.
C13_NativeIsNotAwaited ==
    last.natives # <<>>
        => /\ last.nativeState \in {"pending", "fulfilled", "rejected"}
           /\ last.outcome = "resolved"
           /\ ENABLED (Release /\ locksHeld' = {})

\* A cut in the modal tool state holds its two write locks and has resolved,
\* and the native cut it started has rejected.
C13_Witness ==
    /\ last.cmd = "cut"
    /\ last.natives = <<CUT_NATIVE_MENU_COMMMAND_ID>>
    /\ last.nativeState = "rejected"
    /\ last.outcome = "resolved"
    /\ locksHeld = {JS_DOC, PS_DOC}

====
